---- MODULE Spec2Model ----
(***************************************************************************)
(* Model of tasks.py (mjavint/vsc-odoo): the `config` task, which computes *)
(* the addons path list from config.yaml and the filesystem, writes        *)
(* pyrightconfig.json and .vscode/settings.json, and rewrites the          *)
(* addons_path line of odoo.conf.                                          *)
(*                                                                         *)
(* Text is a sequence of tokens.  A token is a run of characters that the  *)
(* code never looks inside, except for the character-level facts recorded  *)
(* in Whitespace, StartsWithBracket and EndsWithBracket.  "\n" is the line *)
(* terminator.  A path is a string.                                        *)
(***************************************************************************)
EXTENDS Integers, Sequences, FiniteSets, TLC

VARIABLES
    config,          \* the loaded config.yaml: [server, enterprise, repos]
    ide,             \* the --ide argument of the config task
    fs,              \* the set of resolved paths that exist on disk
    odoo_conf,       \* odoo.conf:             [present, text]
    pyright_config,  \* pyrightconfig.json:    [present, extraPaths]
    vscode_settings, \* .vscode/settings.json: [present, extraPaths, interpreter]
    pc,              \* position of the running config task
    valid_repos,     \* local of config
    analysis_paths,  \* local of config
    addons_paths,    \* local of config (the list joined into new_addons_line)
    runs,            \* number of config invocations started so far
    before,          \* the three files as they were when the current run started
    new_conf,        \* local of config: the lines assembled for odoo.conf
    \* _load_config
    config_yaml,     \* config.yaml on disk
    _CONFIG,         \* the module-level cache
    reads,           \* how many times config.yaml has been opened and parsed
    calls,           \* how many _load_config calls have been made
    outcome,         \* what the last _load_config call returned or raised
    loaded,          \* [done, value]: the first successful read and its value
    \* install
    skip,            \* [Dependencies, Configuration, Repositories]: the flags
    failing,         \* the tasks that raise in this environment
    ran,             \* the tasks called so far, in order
    ipc,             \* position of install
    \* backupdb
    dbname,          \* argument
    format,          \* argument
    benv,            \* what _get_backup_config and _make_cmd find
    backups,         \* the backup files and directories under dest_dir
    target_dir,      \* local of backupdb
    commands,        \* the external commands run
    bpc,             \* position of backupdb
    raised           \* the exception in flight or propagated, "" if none

config_vars == <<config, ide, fs, odoo_conf, pyright_config, vscode_settings,
                 pc, valid_repos, analysis_paths, addons_paths,
                 runs, before, new_conf>>

load_vars == <<config_yaml, _CONFIG, reads, calls, outcome, loaded>>

install_vars == <<skip, failing, ran, ipc>>

backup_vars == <<dbname, format, benv, backups, target_dir, commands, bpc,
                 raised>>

\* what the config task leaves alone
other_vars == <<load_vars, install_vars, backup_vars>>

vars == <<config_vars, load_vars, install_vars, backup_vars>>

----------------------------------------------------------------------------
(* Bounds *)

MaxLines == 3
MaxRepos == 3
MaxRuns == 2

----------------------------------------------------------------------------
(* Generic helpers *)

SeqsUpTo(S, n) == UNION {[1..k -> S] : k \in 0..n}

Range(s) == {s[i] : i \in 1..Len(s)}

----------------------------------------------------------------------------
(* Paths *)

VenvPython == "/proj/.venv/bin/python"

\* Path.is_absolute()
IsAbsolute(p) == p \notin {"x"}

\* _PROJECT_ROOT / repo_path for a relative repo_path
UnderProjectRoot(p) == IF p = "x" THEN "/proj/x" ELSE p

\* Path.resolve(): the canonical absolute form ("." components removed)
Resolve(p) == IF p = "/srv/./odoo" THEN "/srv/odoo" ELSE p

\* odoo_path / "addons"
AddonsOf(p) ==
    IF p = "/srv/odoo" THEN "/srv/odoo/addons" ELSE "/opt/odoo/addons"

Exists(p) == p \in fs

----------------------------------------------------------------------------
(* Strings as token sequences *)

Whitespace == {" ", "\n"}

StartsWithBracket(tok) == tok \in {"[options]", "[logging]"}

EndsWithBracket(tok) == tok \in {"[options]", "[logging]"}

RECURSIVE LStrip(_)
LStrip(s) ==
    IF s # <<>> /\ Head(s) \in Whitespace THEN LStrip(Tail(s)) ELSE s

RECURSIVE RStrip(_)
RStrip(s) ==
    IF s # <<>> /\ s[Len(s)] \in Whitespace
    THEN RStrip(SubSeq(s, 1, Len(s) - 1)) ELSE s

\* str.strip()
Strip(s) == RStrip(LStrip(s))

\* stripped.startswith("[options]")
StartsWithOptions(stripped) == stripped # <<>> /\ stripped[1] = "[options]"

\* stripped.startswith("addons_path")
StartsWithAddonsPath(stripped) == stripped # <<>> /\ stripped[1] = "addons_path"

\* stripped.startswith("[") and stripped.endswith("]")
IsSectionHeader(stripped) ==
    /\ stripped # <<>>
    /\ StartsWithBracket(stripped[1])
    /\ EndsWithBracket(stripped[Len(stripped)])

\* f.readlines(): each line keeps its terminator; the last may have none
RECURSIVE readlines(_, _)
readlines(text, cur) ==
    IF text = <<>> THEN (IF cur = <<>> THEN <<>> ELSE <<cur>>)
    ELSE IF Head(text) = "\n"
         THEN <<Append(cur, "\n")>> \o readlines(Tail(text), <<>>)
         ELSE readlines(Tail(text), Append(cur, Head(text)))

\* f.writelines(): plain concatenation
RECURSIVE writelines(_)
writelines(lines) ==
    IF lines = <<>> THEN <<>> ELSE Head(lines) \o writelines(Tail(lines))

\* ','.join(paths)
RECURSIVE Join(_)
Join(paths) ==
    IF paths = <<>> THEN <<>>
    ELSE IF Len(paths) = 1 THEN <<paths[1]>>
    ELSE <<paths[1], ",">> \o Join(Tail(paths))

\* f"addons_path = {','.join(addons_paths)}\n"
new_addons_line(paths) ==
    <<"addons_path", " ", "=", " ">> \o Join(paths) \o <<"\n">>

----------------------------------------------------------------------------
(* The addons_path rewrite of odoo.conf (config, lines 342-382) *)

\* ScanStep with the substitution guarded by `not updated`: only the first
\* addons_path line of the section is replaced
ScanStepFirstOnly(st, line, new_line) ==
    LET stripped == Strip(line) IN
    IF StartsWithOptions(stripped)
    THEN [st EXCEPT !.in_options = TRUE, !.new_conf = Append(@, line)]
    ELSE IF st.in_options /\ StartsWithAddonsPath(stripped) /\ ~st.updated
    THEN [st EXCEPT !.updated = TRUE, !.new_conf = Append(@, new_line)]
    ELSE IF st.in_options /\ IsSectionHeader(stripped)
    THEN [st EXCEPT !.in_options = FALSE, !.new_conf = Append(@, line)]
    ELSE [st EXCEPT !.new_conf = Append(@, line)]

\* One iteration of `for line in conf_lines`; st = [in_options, updated, new_conf]
ScanStep(st, line, new_line) ==
    LET stripped == Strip(line) IN
    IF StartsWithOptions(stripped)
    THEN [st EXCEPT !.in_options = TRUE, !.new_conf = Append(@, line)]
    ELSE IF st.in_options /\ StartsWithAddonsPath(stripped)
    THEN [st EXCEPT !.updated = TRUE, !.new_conf = Append(@, new_line)]
    ELSE IF st.in_options /\ IsSectionHeader(stripped)
    THEN [st EXCEPT !.in_options = FALSE, !.new_conf = Append(@, line)]
    ELSE [st EXCEPT !.new_conf = Append(@, line)]

RECURSIVE Scan(_, _, _)
Scan(st, conf_lines, new_line) ==
    IF conf_lines = <<>> THEN st
    ELSE Scan(ScanStep(st, Head(conf_lines), new_line), Tail(conf_lines), new_line)

\* Indices of the lines of new_conf that the fallback recognises as [options]
OptionsHeaders(conf) ==
    {i \in 1..Len(conf) : StartsWithOptions(Strip(conf[i]))}

Min(S) == CHOOSE i \in S : \A j \in S : i <= j

\* list.insert(i, x) with 0-based i = k: x goes after the first k elements
Insert(lst, k, x) == SubSeq(lst, 1, k) \o <<x>> \o SubSeq(lst, k + 1, Len(lst))

\* `if not updated:` fallback
Fallback(conf, new_line) ==
    IF OptionsHeaders(conf) # {}
    THEN Insert(conf, Min(OptionsHeaders(conf)), new_line)
    ELSE conf \o << <<"\n", "[options]", "\n">>, new_line >>

\* lines 339-379: the lines of the new file, from the old file's text (empty
\* when the file is missing)
patchedLines(text, paths) ==
    LET new_line == new_addons_line(paths)
        st == Scan([in_options |-> FALSE, updated |-> FALSE, new_conf |-> <<>>],
                   readlines(text, <<>>), new_line)
    IN  IF st.updated THEN st.new_conf ELSE Fallback(st.new_conf, new_line)

\* The whole rewrite: old file text -> new file text
patchAddonsPath(text, paths) == writelines(patchedLines(text, paths))

----------------------------------------------------------------------------
(* The path lists (config, lines 201-261 and 334-337) *)

NoPath == "None"

odoo_path == Resolve(config.server)

enterprise_path ==
    IF config.enterprise # "" THEN Resolve(config.enterprise) ELSE NoPath

server_addons_path == AddonsOf(odoo_path)

\* RepoStep without the `repo_resolved == odoo_path` test
RepoStepNoCoreCheck(st, repo) ==
    LET repo_resolved ==
            Resolve(IF IsAbsolute(repo) THEN repo ELSE UnderProjectRoot(repo))
    IN  IF ~Exists(repo_resolved) THEN st
        ELSE IF repo_resolved \in st.seen_paths THEN st
        ELSE [valid_repos |-> Append(st.valid_repos, repo_resolved),
              seen_paths  |-> st.seen_paths \cup {repo_resolved}]

\* RepoStep without the `repo_resolved.exists()` test
RepoStepNoExistsCheck(st, repo) ==
    LET repo_resolved ==
            Resolve(IF IsAbsolute(repo) THEN repo ELSE UnderProjectRoot(repo))
    IN  IF repo_resolved = odoo_path THEN st
        ELSE IF repo_resolved \in st.seen_paths THEN st
        ELSE [valid_repos |-> Append(st.valid_repos, repo_resolved),
              seen_paths  |-> st.seen_paths \cup {repo_resolved}]

\* One iteration of `for repo in repos_config`; st = [valid_repos, seen_paths]
RepoStep(st, repo) ==
    LET repo_resolved ==
            Resolve(IF IsAbsolute(repo) THEN repo ELSE UnderProjectRoot(repo))
    IN  IF ~Exists(repo_resolved) THEN st
        ELSE IF repo_resolved = odoo_path THEN st
        ELSE IF repo_resolved \in st.seen_paths THEN st
        ELSE [valid_repos |-> Append(st.valid_repos, repo_resolved),
              seen_paths  |-> st.seen_paths \cup {repo_resolved}]

RECURSIVE ProcessRepos(_, _)
ProcessRepos(st, repos) ==
    IF repos = <<>> THEN st
    ELSE ProcessRepos(RepoStep(st, Head(repos)), Tail(repos))

\* AnalysisPaths without the `enterprise_path != odoo_path` test
AnalysisPathsNoDistinctTest(repos) ==
    <<server_addons_path>>
    \o (IF enterprise_path # NoPath /\ Exists(enterprise_path)
        THEN <<enterprise_path>> ELSE <<>>)
    \o repos
    \o <<odoo_path>>

\* analysis_paths as dumped to pyrightconfig.json (lines 250-260)
AnalysisPaths(repos) ==
    <<server_addons_path>>
    \o (IF enterprise_path # NoPath /\ Exists(enterprise_path)
           /\ enterprise_path # odoo_path
        THEN <<enterprise_path>> ELSE <<>>)
    \o repos
    \o <<odoo_path>>

\* addons_paths as joined into odoo.conf (lines 334-337)
AddonsPaths(repos) ==
    <<server_addons_path>>
    \o (IF enterprise_path # NoPath /\ Exists(enterprise_path)
        THEN <<enterprise_path>> ELSE <<>>)
    \o repos

----------------------------------------------------------------------------
(* The config task, step by step *)

Files == [odoo_conf |-> odoo_conf, pyright_config |-> pyright_config,
          vscode_settings |-> vscode_settings]

\* ValidateFail without the `odoo_path.exists()` test: the run goes on
ValidateFailUnchecked ==
    /\ pc = "start"
    /\ ~Exists(odoo_path)
    /\ valid_repos' =
         ProcessRepos([valid_repos |-> <<>>, seen_paths |-> {}],
                      config.repos).valid_repos
    /\ pc' = "pyright"
    /\ UNCHANGED <<config, ide, fs, odoo_conf, pyright_config, vscode_settings,
                   analysis_paths, addons_paths, runs, before, new_conf>>
    /\ UNCHANGED other_vars

\* line 213-214: the core path is missing, FileNotFoundError, re-raised at 392-394
ValidateFail ==
    /\ pc = "start"
    /\ ~Exists(odoo_path)
    /\ pc' = "failed"
    /\ UNCHANGED <<config, ide, fs, odoo_conf, pyright_config, vscode_settings,
                   valid_repos, analysis_paths, addons_paths, runs, before, new_conf>>
    /\ UNCHANGED other_vars

\* lines 201-244: the core path exists; the repo loop runs
Validate ==
    /\ pc = "start"
    /\ Exists(odoo_path)
    /\ valid_repos' =
         ProcessRepos([valid_repos |-> <<>>, seen_paths |-> {}],
                      config.repos).valid_repos
    /\ pc' = "pyright"
    /\ UNCHANGED <<config, ide, fs, odoo_conf, pyright_config, vscode_settings,
                   analysis_paths, addons_paths, runs, before, new_conf>>
    /\ UNCHANGED other_vars

\* lines 246-264: pyrightconfig.json is written
WritePyright ==
    /\ pc = "pyright"
    /\ analysis_paths' = AnalysisPaths(valid_repos)
    /\ pyright_config' = [present |-> TRUE, extraPaths |-> analysis_paths']
    /\ pc' = "vscode"
    /\ UNCHANGED <<config, ide, fs, odoo_conf, vscode_settings,
                   valid_repos, addons_paths, runs, before, new_conf>>
    /\ UNCHANGED other_vars

\* str.lower() on the ide argument
Lower(s) == IF s = "VSCode" THEN "vscode" ELSE s

\* lines 267-328: settings.json is written
WriteVscode ==
    /\ pc = "vscode"
    /\ Lower(ide) = "vscode"
    /\ Exists(VenvPython)
    /\ vscode_settings' = [present |-> TRUE, extraPaths |-> analysis_paths,
                           interpreter |-> VenvPython]
    /\ pc' = "conf"
    /\ UNCHANGED <<config, ide, fs, odoo_conf, pyright_config,
                   valid_repos, analysis_paths, addons_paths, runs, before, new_conf>>
    /\ UNCHANGED other_vars

\* line 292 with lines 70-74: _get_venv_python raises FileNotFoundError
WriteVscodeFail ==
    /\ pc = "vscode"
    /\ Lower(ide) = "vscode"
    /\ ~Exists(VenvPython)
    /\ pc' = "failed"
    /\ UNCHANGED <<config, ide, fs, odoo_conf, pyright_config, vscode_settings,
                   valid_repos, analysis_paths, addons_paths, runs, before, new_conf>>
    /\ UNCHANGED other_vars

\* line 267: another ide, nothing to generate
SkipVscode ==
    /\ pc = "vscode"
    /\ Lower(ide) # "vscode"
    /\ pc' = "conf"
    /\ UNCHANGED <<config, ide, fs, odoo_conf, pyright_config, vscode_settings,
                   valid_repos, analysis_paths, addons_paths, runs, before, new_conf>>
    /\ UNCHANGED other_vars

\* AssembleOdooConf with odoo.conf opened for writing (and so truncated)
\* before its new content is assembled
AssembleOdooConfOpenFirst ==
    /\ pc = "conf"
    /\ addons_paths' = AddonsPaths(valid_repos)
    /\ new_conf' = patchedLines(IF odoo_conf.present THEN odoo_conf.text
                                ELSE <<>>, addons_paths')
    /\ odoo_conf' = [present |-> TRUE, text |-> <<>>]
    /\ pc' = "write"
    /\ UNCHANGED <<config, ide, fs, pyright_config, vscode_settings,
                   valid_repos, analysis_paths, runs, before>>
    /\ UNCHANGED other_vars

\* lines 330-379: odoo.conf is read and its new lines are assembled in memory
AssembleOdooConf ==
    /\ pc = "conf"
    /\ addons_paths' = AddonsPaths(valid_repos)
    /\ new_conf' = patchedLines(IF odoo_conf.present THEN odoo_conf.text
                                ELSE <<>>, addons_paths')
    /\ pc' = "write"
    /\ UNCHANGED <<config, ide, fs, odoo_conf, pyright_config, vscode_settings,
                   valid_repos, analysis_paths, runs, before>>
    /\ UNCHANGED other_vars

\* lines 381-382: odoo.conf is opened for writing and the lines are written
WriteOdooConf ==
    /\ pc = "write"
    /\ odoo_conf' = [present |-> TRUE, text |-> writelines(new_conf)]
    /\ pc' = "done"
    /\ UNCHANGED <<config, ide, fs, pyright_config, vscode_settings,
                   valid_repos, analysis_paths, addons_paths, runs, before,
                   new_conf>>
    /\ UNCHANGED other_vars

\* the operator invokes `invoke config` again, same config.yaml and filesystem
Rerun ==
    /\ pc \in {"done", "failed"}
    /\ runs < MaxRuns
    /\ runs' = runs + 1
    /\ before' = Files
    /\ pc' = "start"
    /\ valid_repos' = <<>>
    /\ analysis_paths' = <<>>
    /\ addons_paths' = <<>>
    /\ new_conf' = <<>>
    /\ UNCHANGED <<config, ide, fs, odoo_conf, pyright_config, vscode_settings>>
    /\ UNCHANGED other_vars

Next ==
    \/ ValidateFail
    \/ Validate
    \/ WritePyright
    \/ WriteVscode
    \/ WriteVscodeFail
    \/ SkipVscode
    \/ AssembleOdooConf
    \/ WriteOdooConf
    \/ Rerun

----------------------------------------------------------------------------
(* _load_config (lines 21-39) *)

MaxCalls == 4

\* config.yaml is missing or not YAML ("unreadable"), an empty document, or
\* one of two mappings
YamlDocuments == {"unreadable", "empty", "A", "B"}

None == "None"

\* yaml.load: an empty document loads as None, a mapping as itself
YamlLoad(doc) == IF doc = "empty" THEN None ELSE doc

\* line 29 false: the cached value is returned, the file is not touched
LoadCached ==
    /\ calls < MaxCalls
    /\ _CONFIG # None
    /\ calls' = calls + 1
    /\ outcome' = _CONFIG
    /\ UNCHANGED <<config_yaml, _CONFIG, reads, loaded>>
    /\ UNCHANGED <<config_vars, install_vars, backup_vars>>

\* lines 29-35 and 39: the file is opened, parsed, cached and returned
LoadRead ==
    /\ calls < MaxCalls
    /\ _CONFIG = None
    /\ config_yaml # "unreadable"
    /\ calls' = calls + 1
    /\ reads' = reads + 1
    /\ _CONFIG' = YamlLoad(config_yaml)
    /\ outcome' = _CONFIG'
    /\ loaded' = IF loaded.done THEN loaded
                 ELSE [done |-> TRUE, value |-> _CONFIG']
    /\ UNCHANGED config_yaml
    /\ UNCHANGED <<config_vars, install_vars, backup_vars>>

\* lines 36-38: open or load raises, RuntimeError is raised instead
LoadFail ==
    /\ calls < MaxCalls
    /\ _CONFIG = None
    /\ config_yaml = "unreadable"
    /\ calls' = calls + 1
    /\ reads' = reads + 1
    /\ outcome' = "RuntimeError"
    /\ UNCHANGED <<config_yaml, _CONFIG, loaded>>
    /\ UNCHANGED <<config_vars, install_vars, backup_vars>>

\* between two calls the operator edits, breaks or repairs config.yaml
EditConfigYaml ==
    /\ calls < MaxCalls
    /\ config_yaml' \in YamlDocuments \ {config_yaml}
    /\ UNCHANGED <<_CONFIG, reads, calls, outcome, loaded>>
    /\ UNCHANGED <<config_vars, install_vars, backup_vars>>

NextLoad ==
    \/ LoadCached
    \/ LoadRead
    \/ LoadFail
    \/ EditConfigYaml

----------------------------------------------------------------------------
(* install (lines 424-465) *)

\* `steps`, in the insertion order of the dict
StepNames == <<"Dependencies", "Configuration", "Repositories">>

\* the task each step's lambda calls
TaskOf(step) ==
    CASE step = "Dependencies" -> "check_odoo"
      [] step = "Configuration" -> "config"
      [] step = "Repositories" -> "aggregate"

\* where the loop goes after a step
AfterStep(step) ==
    CASE step = "Dependencies" -> "Configuration"
      [] step = "Configuration" -> "Repositories"
      [] step = "Repositories" -> "returned"

\* should_run with the skip flag ignored
ShouldRunAlways(step) == TRUE

\* should_run: `not skip_deps`, `not skip_config`, `not skip_aggregate`
ShouldRun(step) == ~skip[step]

\* line 437: check(c) returns
InstallCheck ==
    /\ ipc = "check"
    /\ "check" \notin failing
    /\ ran' = Append(ran, "check")
    /\ ipc' = "Dependencies"
    /\ UNCHANGED <<skip, failing>>
    /\ UNCHANGED <<config_vars, load_vars, backup_vars>>

\* line 437 raises, lines 458-465 re-raise
InstallCheckRaises ==
    /\ ipc = "check"
    /\ "check" \in failing
    /\ ran' = Append(ran, "check")
    /\ ipc' = "raised"
    /\ UNCHANGED <<skip, failing>>
    /\ UNCHANGED <<config_vars, load_vars, backup_vars>>

\* lines 447-450: the step's task is called and returns
InstallRunStep ==
    /\ ipc \in Range(StepNames)
    /\ ShouldRun(ipc)
    /\ TaskOf(ipc) \notin failing
    /\ ran' = Append(ran, TaskOf(ipc))
    /\ ipc' = AfterStep(ipc)
    /\ UNCHANGED <<skip, failing>>
    /\ UNCHANGED <<config_vars, load_vars, backup_vars>>

\* lines 447-450: the step's task raises, lines 458-465 re-raise
InstallStepRaises ==
    /\ ipc \in Range(StepNames)
    /\ ShouldRun(ipc)
    /\ TaskOf(ipc) \in failing
    /\ ran' = Append(ran, TaskOf(ipc))
    /\ ipc' = "raised"
    /\ UNCHANGED <<skip, failing>>
    /\ UNCHANGED <<config_vars, load_vars, backup_vars>>

\* lines 451-452: the step is skipped
InstallSkipStep ==
    /\ ipc \in Range(StepNames)
    /\ ~ShouldRun(ipc)
    /\ ipc' = AfterStep(ipc)
    /\ UNCHANGED <<skip, failing, ran>>
    /\ UNCHANGED <<config_vars, load_vars, backup_vars>>

NextInstall ==
    \/ InstallCheck
    \/ InstallCheckRaises
    \/ InstallRunStep
    \/ InstallStepRaises
    \/ InstallSkipStep

----------------------------------------------------------------------------
(* backupdb (lines 549-646) *)

\* a local that has not been assigned yet
Unbound == "unbound"

\* lines 605 and 611: config["dest_dir"] / f"{dbname}.{format}" or / dbname
TargetOf(name, fmt) ==
    IF fmt = "zip" THEN "db.zip"
    ELSE IF fmt = "dump" THEN "db.dump"
    ELSE "db"

\* line 599: _get_backup_config returns
BackupGetConfig ==
    /\ bpc = "start"
    /\ benv.config = "ok"
    /\ bpc' = "name"
    /\ UNCHANGED <<dbname, format, benv, backups, target_dir, commands, raised>>
    /\ UNCHANGED <<config_vars, load_vars, install_vars>>

\* line 599 raises: RuntimeError from _load_config, KeyError from line 560-561
BackupGetConfigRaises ==
    /\ bpc = "start"
    /\ benv.config # "ok"
    /\ raised' = IF benv.config = "unreadable" THEN "RuntimeError" ELSE "KeyError"
    /\ bpc' = "except"
    /\ UNCHANGED <<dbname, format, benv, backups, target_dir, commands>>
    /\ UNCHANGED <<config_vars, load_vars, install_vars>>

\* lines 601-602
BackupNameMissing ==
    /\ bpc = "name"
    /\ dbname = ""
    /\ raised' = "ValueError"
    /\ bpc' = "except"
    /\ UNCHANGED <<dbname, format, benv, backups, target_dir, commands>>
    /\ UNCHANGED <<config_vars, load_vars, install_vars>>

\* lines 604-617: target_dir is bound and an existing backup is removed
BackupRemoveExisting ==
    /\ bpc = "name"
    /\ dbname # ""
    /\ target_dir' = TargetOf(dbname, format)
    /\ backups' = backups \ {target_dir'}
    /\ bpc' = "cmd"
    /\ UNCHANGED <<dbname, format, benv, commands, raised>>
    /\ UNCHANGED <<config_vars, load_vars, install_vars>>

\* lines 619-621 with 572-579: _make_cmd raises FileNotFoundError
BackupMakeCmdRaises ==
    /\ bpc = "cmd"
    /\ ~benv.paths_ok
    /\ raised' = "FileNotFoundError"
    /\ bpc' = "except"
    /\ UNCHANGED <<dbname, format, benv, backups, target_dir, commands>>
    /\ UNCHANGED <<config_vars, load_vars, install_vars>>

\* lines 619-632: the command is built and run, and writes the backup
BackupRun ==
    /\ bpc = "cmd"
    /\ benv.paths_ok
    /\ benv.cmd_ok
    /\ commands' = Append(commands, <<"backupdb", dbname, target_dir, format>>)
    /\ backups' = backups \cup {target_dir}
    /\ bpc' = "returned"
    /\ UNCHANGED <<dbname, format, benv, target_dir, raised>>
    /\ UNCHANGED <<config_vars, load_vars, install_vars>>

\* lines 619-632: the command is built and run, and exits with an error
BackupRunRaises ==
    /\ bpc = "cmd"
    /\ benv.paths_ok
    /\ ~benv.cmd_ok
    /\ commands' = Append(commands, <<"backupdb", dbname, target_dir, format>>)
    /\ raised' = "UnexpectedExit"
    /\ bpc' = "except"
    /\ UNCHANGED <<dbname, format, benv, backups, target_dir>>
    /\ UNCHANGED <<config_vars, load_vars, install_vars>>

\* lines 634-646: the handler logs, reading target_dir (line 638-639), and
\* re-raises; reading the local while it is unbound raises UnboundLocalError
BackupExcept ==
    /\ bpc = "except"
    /\ raised' = IF target_dir = Unbound THEN "UnboundLocalError" ELSE raised
    /\ bpc' = "propagated"
    /\ UNCHANGED <<dbname, format, benv, backups, target_dir, commands>>
    /\ UNCHANGED <<config_vars, load_vars, install_vars>>

NextBackup ==
    \/ BackupGetConfig
    \/ BackupGetConfigRaises
    \/ BackupNameMissing
    \/ BackupRemoveExisting
    \/ BackupMakeCmdRaises
    \/ BackupRun
    \/ BackupRunRaises
    \/ BackupExcept

----------------------------------------------------------------------------
(* Initial states: what config.yaml, the filesystem and the three files can *)
(* hold when the task is invoked                                            *)

ServerStrings == {"/srv/odoo", "/opt/odoo"}

EnterpriseStrings == {"", "/srv/enterprise", "/srv/odoo", "/gone"}

RepoStrings == {"/x", "x", "/srv/odoo", "/srv/./odoo", "/srv/enterprise",
                "/srv/odoo/addons", "/gone"}

\* "/opt/odoo" and "/gone" never exist
AlwaysThere == {"/srv/odoo", "/srv/enterprise", "/x", "/proj/x"}

\* (filesystem, ide argument) pairs
Environments ==
    { [fs |-> AlwaysThere \cup {"/srv/odoo/addons", VenvPython}, ide |-> "vscode"],
      [fs |-> AlwaysThere, ide |-> "VSCode"],
      [fs |-> AlwaysThere \cup {"/srv/odoo/addons"}, ide |-> "pycharm"] }

NoFile == [present |-> FALSE, text |-> <<>>]

NoPyright == [present |-> FALSE, extraPaths |-> <<>>]

NoSettings == [present |-> FALSE, extraPaths |-> <<>>, interpreter |-> ""]

\* The lines a document is made of, without their terminator
LineKinds ==
    { <<"[options]">>,
      <<"[logging]">>,
      <<"[logging]", " ", ";c">>,
      <<"addons_path", " ", "=", " ", "/old">>,
      <<"addons_path", "_backup", " ", "=", " ", "/old">>,
      <<"other_key", " ", "=", " ", "1">>,
      <<>> }

\* The text of a sequence of lines; final_newline tells whether the last
\* line is terminated
RECURSIVE TextOf(_, _)
TextOf(lines, final_newline) ==
    IF lines = <<>> THEN <<>>
    ELSE IF Len(lines) = 1
         THEN Head(lines) \o (IF final_newline THEN <<"\n">> ELSE <<>>)
         ELSE Head(lines) \o <<"\n">> \o TextOf(Tail(lines), final_newline)

Documents ==
    {NoFile} \cup
    { [present |-> TRUE, text |-> TextOf(ls, nl)] :
        ls \in SeqsUpTo(LineKinds, MaxLines), nl \in BOOLEAN }

FewDocuments ==
    { NoFile,
      [present |-> TRUE,
       text |-> <<"[options]", "\n", "addons_path", " ", "=", " ", "/old", "\n">>] }

FewConfigs ==
    { [server |-> "/srv/odoo", enterprise |-> "", repos |-> <<>>],
      [server |-> "/srv/odoo", enterprise |-> "/srv/enterprise", repos |-> <<"x">>],
      [server |-> "/opt/odoo", enterprise |-> "", repos |-> <<>>] }

\* no _load_config call yet
LoadIdle ==
    /\ _CONFIG = None
    /\ reads = 0
    /\ calls = 0
    /\ outcome = None
    /\ loaded = [done |-> FALSE, value |-> None]

\* install about to call check
InstallIdle ==
    /\ ran = <<>>
    /\ ipc = "check"

\* backupdb about to call _get_backup_config
BackupIdle ==
    /\ target_dir = Unbound
    /\ commands = <<>>
    /\ bpc = "start"
    /\ raised = ""
    /\ backups = benv.backups

\* the config task about to start
ConfigIdle ==
    /\ pc = "start"
    /\ valid_repos = <<>>
    /\ analysis_paths = <<>>
    /\ addons_paths = <<>>
    /\ new_conf = <<>>
    /\ runs = 1
    /\ before = Files

\* one environment for the tasks a specification does not exercise
OthersFixed ==
    /\ config_yaml = "A"
    /\ skip = [s \in Range(StepNames) |-> FALSE]
    /\ failing = {}
    /\ dbname = "db"
    /\ format = "zip"
    /\ benv = [config |-> "ok", paths_ok |-> TRUE, cmd_ok |-> TRUE,
               backups |-> {}]

ConfigFixed ==
    /\ config = [server |-> "/srv/odoo", enterprise |-> "", repos |-> <<>>]
    /\ fs = AlwaysThere
    /\ ide = "vscode"
    /\ odoo_conf = NoFile
    /\ pyright_config = NoPyright
    /\ vscode_settings = NoSettings

InitCommon ==
    /\ ConfigIdle
    /\ OthersFixed
    /\ LoadIdle
    /\ InstallIdle
    /\ BackupIdle

\* Every configuration, a few documents
Init ==
    /\ config \in [server : ServerStrings, enterprise : EnterpriseStrings,
                   repos : SeqsUpTo(RepoStrings, MaxRepos)]
    /\ \E env \in Environments : fs = env.fs /\ ide = env.ide
    /\ odoo_conf \in FewDocuments
    /\ \/ pyright_config = NoPyright /\ vscode_settings = NoSettings
       \/ /\ pyright_config = [present |-> TRUE, extraPaths |-> <<"/old">>]
          /\ vscode_settings = [present |-> TRUE, extraPaths |-> <<"/old">>,
                                interpreter |-> "/usr/bin/python"]
    /\ InitCommon

\* Every document, a few configurations
InitDoc ==
    /\ config \in FewConfigs
    /\ \E env \in Environments : fs = env.fs /\ ide = env.ide
    /\ odoo_conf \in Documents
    /\ pyright_config = NoPyright
    /\ vscode_settings = NoSettings
    /\ InitCommon

Spec == Init /\ [][Next]_vars

SpecDoc == InitDoc /\ [][Next]_vars

\* _load_config called up to MaxCalls times in one process
InitLoad ==
    /\ config_yaml \in YamlDocuments
    /\ LoadIdle
    /\ skip = [s \in Range(StepNames) |-> FALSE]
    /\ failing = {}
    /\ dbname = "db"
    /\ format = "zip"
    /\ benv = [config |-> "ok", paths_ok |-> TRUE, cmd_ok |-> TRUE,
               backups |-> {}]
    /\ ConfigFixed
    /\ ConfigIdle
    /\ InstallIdle
    /\ BackupIdle

SpecLoad == InitLoad /\ [][NextLoad]_vars

\* install under every combination of flags and of failing tasks
InitInstall ==
    /\ skip \in [Range(StepNames) -> BOOLEAN]
    /\ failing \in SUBSET {"check", "check_odoo", "config", "aggregate"}
    /\ InstallIdle
    /\ config_yaml = "A"
    /\ dbname = "db"
    /\ format = "zip"
    /\ benv = [config |-> "ok", paths_ok |-> TRUE, cmd_ok |-> TRUE,
               backups |-> {}]
    /\ ConfigFixed
    /\ ConfigIdle
    /\ LoadIdle
    /\ BackupIdle

SpecInstall == InitInstall /\ [][NextInstall]_vars

\* backupdb under every argument and environment
InitBackup ==
    /\ dbname \in {"", "db"}
    /\ format \in {"zip", "dump", "folder"}
    /\ benv \in [config : {"ok", "unreadable", "nokey"}, paths_ok : BOOLEAN,
                 cmd_ok : BOOLEAN, backups : SUBSET {"db.zip", "db.dump", "db"}]
    /\ BackupIdle
    /\ config_yaml = "A"
    /\ skip = [s \in Range(StepNames) |-> FALSE]
    /\ failing = {}
    /\ ConfigFixed
    /\ ConfigIdle
    /\ LoadIdle
    /\ InstallIdle

SpecBackup == InitBackup /\ [][NextBackup]_vars

----------------------------------------------------------------------------
(* Vocabulary of the properties *)

\* The lines of odoo.conf when the current run started, and now
LinesBefore ==
    readlines(IF before.odoo_conf.present THEN before.odoo_conf.text ELSE <<>>,
              <<>>)

LinesNow == readlines(odoo_conf.text, <<>>)

\* A line without its terminator
Content(line) ==
    IF line # <<>> /\ line[Len(line)] = "\n"
    THEN SubSeq(line, 1, Len(line) - 1) ELSE line

Contents(lines) == [i \in 1..Len(lines) |-> Content(lines[i])]

\* The text ends with a line terminator (or is empty)
Terminated(text) == text = <<>> \/ text[Len(text)] = "\n"

HasDuplicates(s) == \E i, j \in 1..Len(s) : i # j /\ s[i] = s[j]

\* The addons_path-prefixed lines that lie inside an [options] section, as
\* the scan delimits it: after an [options] line, with no line in between
\* that starts with "[" and ends with "]"
InOptionsAddons(lines) ==
    { i \in 1..Len(lines) :
        /\ StartsWithAddonsPath(Strip(lines[i]))
        /\ \E j \in 1..(i - 1) :
             /\ StartsWithOptions(Strip(lines[j]))
             /\ \A k \in (j + 1)..(i - 1) : ~IsSectionHeader(Strip(lines[k])) }

\* The key of a key = value line is exactly addons_path
KeyIsAddonsPath(line) ==
    LET stripped == Strip(line) IN
    /\ StartsWithAddonsPath(stripped)
    /\ Len(stripped) = 1 \/ stripped[2] \in {" ", "="}

\* A section header as the specification delimits sections: the line begins
\* with "[" and has a closing "]", trailing text or not
OpensSection(line) ==
    LET stripped == Strip(line) IN
    stripped # <<>> /\ StartsWithBracket(stripped[1])

----------------------------------------------------------------------------
(* C1 *)

\* C1: running the addons_path rewrite on the file it has just produced,
\* with the same path list, yields the same file byte for byte.
\* (A second run starts from the first run's output: config.yaml and the
\* filesystem do not change between runs.)
C1_RewriteIdempotent ==
    (pc = "done" /\ runs >= 2) => odoo_conf = before.odoo_conf

----------------------------------------------------------------------------
(* C2 *)

\* C2: when [options] is followed by another section header (a line that
\* begins with "[" and has a closing "]", with or without trailing text)
\* and no [options] line comes after it, every line from that header onward
\* is in the output unchanged and in the same order.
C2_OutsideOptionsUntouched ==
    pc = "done" =>
      \A j \in 1..Len(LinesBefore) :
        ( /\ OpensSection(LinesBefore[j])
          /\ \E i \in 1..(j - 1) : StartsWithOptions(Strip(LinesBefore[i]))
          /\ \A k \in j..Len(LinesBefore) :
               ~StartsWithOptions(Strip(LinesBefore[k])) )
        => /\ Len(LinesNow) >= Len(LinesBefore)
           /\ SubSeq(LinesNow, j + Len(LinesNow) - Len(LinesBefore), Len(LinesNow))
                = SubSeq(LinesBefore, j, Len(LinesBefore))

----------------------------------------------------------------------------
(* C3 *)

\* C3: the path list written as the addons_path value holds no path twice.
C3_NoDuplicatePath ==
    pc = "done" => ~HasDuplicates(addons_paths)

----------------------------------------------------------------------------
(* C4 *)

\* PathSet as section 4.1 of the specification builds it: a repo is accepted
\* when it exists, is not the core path and is not yet in the result
RECURSIVE PathSetRepos(_, _)
PathSetRepos(result, repos) ==
    IF repos = <<>> THEN result
    ELSE LET r == Resolve(IF IsAbsolute(Head(repos)) THEN Head(repos)
                          ELSE UnderProjectRoot(Head(repos)))
         IN  PathSetRepos(IF Exists(r) /\ r # odoo_path /\ r \notin Range(result)
                          THEN Append(result, r) ELSE result,
                          Tail(repos))

EnterpriseEligible ==
    /\ config.enterprise # ""
    /\ Exists(Resolve(config.enterprise))
    /\ Resolve(config.enterprise) # odoo_path

PathSet ==
    PathSetRepos(<<AddonsOf(odoo_path)>>
                 \o (IF EnterpriseEligible THEN <<Resolve(config.enterprise)>>
                     ELSE <<>>),
                 config.repos)

\* C4: the list written is exactly the core addons subdirectory (existing or
\* not), then the enterprise path when eligible, then the accepted repo
\* paths in the order of their first occurrence.
C4_ListIsPathSet ==
    pc = "done" => addons_paths = PathSet

----------------------------------------------------------------------------
(* C5 *)

\* C5: the enterprise path is in the list only if it is configured
\* non-empty, exists on disk and differs from the core server path.
C5_EnterpriseOnlyIfDistinct ==
    (pc = "done" /\ config.enterprise # ""
        /\ Resolve(config.enterprise) \in Range(addons_paths))
    => /\ Exists(Resolve(config.enterprise))
       /\ Resolve(config.enterprise) # odoo_path

----------------------------------------------------------------------------
(* C6 *)

\* C6: a configured repo that resolves to the core server path is never in
\* the repo portion of the computed path set, wherever and however often it
\* is listed.
C6_CoreNeverAmongRepos ==
    /\ odoo_path \notin Range(valid_repos)
    /\ pc = "done" =>
         /\ Len(addons_paths) >= Len(valid_repos)
         /\ SubSeq(addons_paths, Len(addons_paths) - Len(valid_repos) + 1,
                   Len(addons_paths)) = valid_repos

\* the core path is listed twice, around a repo that is accepted
C6_Witness ==
    /\ pc = "done"
    /\ valid_repos # <<>>
    /\ \E i, j \in 1..Len(config.repos) :
         /\ i + 1 < j
         /\ Resolve(config.repos[i]) = odoo_path
         /\ Resolve(config.repos[j]) = odoo_path
         /\ Resolve(config.repos[i + 1]) \in Range(valid_repos)

----------------------------------------------------------------------------
(* C7 *)

\* C7 as stated: with more than one addons_path line in [options], only the
\* first is replaced; the later ones are copied verbatim.
C7_OnlyFirstReplaced ==
    (pc = "done" /\ Cardinality(InOptionsAddons(LinesBefore)) > 1)
    => /\ Len(LinesNow) = Len(LinesBefore)
       /\ \A i \in InOptionsAddons(LinesBefore) \ {Min(InOptionsAddons(LinesBefore))} :
            LinesNow[i] = LinesBefore[i]

\* C7 amended: with more than one addons_path line in [options], every one
\* of them is replaced by the new addons_path line and every other line is
\* copied verbatim, so the output has the lines of the input and differs
\* from it at those lines only.
C7_EveryOccurrenceReplaced ==
    (pc = "done" /\ Cardinality(InOptionsAddons(LinesBefore)) > 1)
    => /\ Len(LinesNow) = Len(LinesBefore)
       /\ \A i \in 1..Len(LinesBefore) :
            LinesNow[i] = IF i \in InOptionsAddons(LinesBefore)
                          THEN new_addons_line(addons_paths)
                          ELSE LinesBefore[i]

\* two old addons_path lines in [options], both now carrying the new value
C7_Witness ==
    /\ pc = "done"
    /\ runs = 1
    /\ Cardinality(InOptionsAddons(LinesBefore)) > 1
    /\ \A i \in InOptionsAddons(LinesBefore) :
         LinesBefore[i] # LinesNow[i] /\ KeyIsAddonsPath(LinesBefore[i])

----------------------------------------------------------------------------
(* C8 *)

\* C8: in a newline-terminated document whose [options] section has an
\* addons_path line, every line whose key is not addons_path (other_key,
\* addons_path_backup, ...) is copied verbatim, at its place.
C8_OnlyAddonsPathKeySubstituted ==
    (pc = "done" /\ Terminated(before.odoo_conf.text)
        /\ InOptionsAddons(LinesBefore) # {})
    => /\ Len(LinesNow) = Len(LinesBefore)
       /\ \A i \in 1..Len(LinesBefore) :
            ~KeyIsAddonsPath(LinesBefore[i]) => LinesNow[i] = LinesBefore[i]

----------------------------------------------------------------------------
(* C9 *)

\* C9: when no addons_path line lies inside [options], the output is the
\* input's lines, unchanged, plus one new addons_path line: right after the
\* first [options] header if there is one, otherwise at the end, after an
\* appended [options] header (itself after a blank line when the input ends
\* with a line terminator).
C9_InsertedOnce ==
    (pc = "done" /\ InOptionsAddons(LinesBefore) = {})
    => LET old == Contents(LinesBefore)
           new == Content(new_addons_line(addons_paths))
           hdr == OptionsHeaders(LinesBefore)
       IN  Contents(LinesNow) =
             IF hdr # {} THEN Insert(old, Min(hdr), new)
             ELSE IF Terminated(before.odoo_conf.text)
                  THEN old \o << <<>>, <<"[options]">>, new >>
                  ELSE old \o << <<"[options]">>, new >>

----------------------------------------------------------------------------
(* C10 *)

\* C10: if the configured core server path does not exist, config aborts
\* with an error and pyrightconfig.json, .vscode/settings.json and odoo.conf
\* are all exactly as they were.
C10_MissingCoreWritesNothing ==
    (~Exists(odoo_path) /\ pc # "start") => (pc = "failed" /\ Files = before)

\* the run has aborted on the missing core path, with files on disk
C10_Witness ==
    /\ pc = "failed"
    /\ ~Exists(odoo_path)
    /\ pyright_config.present
    /\ vscode_settings.present
    /\ odoo_conf.present
    /\ config.repos # <<>>

----------------------------------------------------------------------------
(* C11 *)

\* The path a configured repo entry stands for
RepoResolved(repo) ==
    Resolve(IF IsAbsolute(repo) THEN repo ELSE UnderProjectRoot(repo))

RepoIsThere(repo) == Exists(RepoResolved(repo))

\* The configured repo list with the entries missing on disk struck out
ReposWithoutMissing == SelectSeq(config.repos, RepoIsThere)

\* C11: a repo path or enterprise path missing on disk is left out of the
\* path set and does not abort config: the repo loop gives what it gives on
\* the list without the missing entries, no missing path is written (the
\* core addons directory apart), every repo that is there and is not the
\* core path is written, and the run fails only on a missing core path or a
\* missing interpreter.
C11_MissingOptionalSkipped ==
    /\ pc \in {"pyright", "vscode", "conf", "write", "done"} =>
         valid_repos =
           ProcessRepos([valid_repos |-> <<>>, seen_paths |-> {}],
                        ReposWithoutMissing).valid_repos
    /\ pc = "done" =>
         /\ \A i \in 2..Len(addons_paths) : Exists(addons_paths[i])
         /\ \A i \in 1..Len(config.repos) :
              (RepoIsThere(config.repos[i])
                  /\ RepoResolved(config.repos[i]) # odoo_path)
              => RepoResolved(config.repos[i]) \in Range(addons_paths)
    /\ pc = "failed" =>
         \/ ~Exists(odoo_path)
         \/ Lower(ide) = "vscode" /\ ~Exists(VenvPython)

\* a missing enterprise path and a missing repo listed before a repo that
\* is accepted, in a run that went through
C11_Witness ==
    /\ pc = "done"
    /\ config.enterprise # ""
    /\ ~Exists(enterprise_path)
    /\ \E i, j \in 1..Len(config.repos) :
         /\ i < j
         /\ ~RepoIsThere(config.repos[i])
         /\ RepoResolved(config.repos[j]) \in Range(addons_paths)

----------------------------------------------------------------------------
(* C12 *)

\* C12: odoo.conf is written only once its new content is assembled: at
\* every point of a run the file is as it was when the run started, or the
\* run is over and the file is the complete assembled content; a run that
\* failed has left it unchanged.
C12_OldOrComplete ==
    /\ pc # "done" => odoo_conf = before.odoo_conf
    /\ pc = "done" =>
         /\ odoo_conf = [present |-> TRUE, text |-> writelines(new_conf)]
         /\ Len(new_conf) >= Len(LinesBefore)
         /\ \E i \in 1..Len(new_conf) :
              new_conf[i] = new_addons_line(addons_paths)

\* a run that failed after pyrightconfig.json was rewritten, with an
\* odoo.conf on disk that the rewrite would have changed
C12_Witness ==
    /\ pc = "failed"
    /\ Exists(odoo_path)
    /\ pyright_config # before.pyright_config
    /\ odoo_conf.present
    /\ patchAddonsPath(odoo_conf.text, AddonsPaths(valid_repos)) # odoo_conf.text

----------------------------------------------------------------------------
(* C13 *)

\* C13 as stated: extraPaths of pyrightconfig.json is the addons_path list
\* of odoo.conf, same paths, same order.
C13_ExtraPathsSameAsAddons ==
    pc = "done" => pyright_config.extraPaths = addons_paths

NotCorePath(p) == p # odoo_path

\* C13 amended: extraPaths is the addons_path list without its entry equal
\* to the core server path, if it has one, followed by the core server path.
C13_ExtraPathsAddonsThenCore ==
    pc = "done" =>
      pyright_config.extraPaths
        = SelectSeq(addons_paths, NotCorePath) \o <<odoo_path>>

\* a run that went through with an enterprise path and a repo in the list
C13_Witness ==
    /\ pc = "done"
    /\ Len(addons_paths) >= 3
    /\ enterprise_path \in Range(addons_paths)
    /\ valid_repos # <<>>
    /\ pyright_config # before.pyright_config

----------------------------------------------------------------------------
(* C14 *)

\* C14: once a call has read config.yaml successfully, no later call reads
\* the file again and every later call returns the value read then; a call
\* whose read fails raises RuntimeError and caches nothing.
C14_LoadedOnce ==
    [][ /\ loaded.done => reads' = reads
        /\ (loaded.done /\ calls' # calls) => outcome' = loaded.value
        /\ (calls' # calls /\ outcome' = "RuntimeError") => _CONFIG' = _CONFIG
      ]_vars

----------------------------------------------------------------------------
(* C15 *)

IsPrefix(s, t) == Len(s) <= Len(t) /\ s = SubSeq(t, 1, Len(s))

NotSkipped(step) == ~skip[step]

\* check, then the tasks of the steps whose flag is not set, in order
InstallPlan ==
    <<"check">>
    \o [i \in 1..Len(SelectSeq(StepNames, NotSkipped)) |->
          TaskOf(SelectSeq(StepNames, NotSkipped)[i])]

\* C15: install calls check first, then the tasks of the non-skipped steps
\* in the order Dependencies, Configuration, Repositories, each at most
\* once and no skipped one; when a task raises nothing is called after it
\* and install raises; otherwise install returns having called them all.
C15_InstallOrder ==
    /\ IsPrefix(ran, InstallPlan)
    /\ \A i \in 1..(Len(ran) - 1) : ran[i] \notin failing
    /\ (ran # <<>> /\ ran[Len(ran)] \in failing) => ipc = "raised"
    /\ ipc = "raised" => (ran # <<>> /\ ran[Len(ran)] \in failing)
    /\ ipc = "returned" => ran = InstallPlan

\* --skip-deps: check and config were called, config raised, and the
\* repository sync, though not skipped, was not called
C15_Witness ==
    /\ ipc = "raised"
    /\ skip["Dependencies"]
    /\ ~skip["Repositories"]
    /\ ran = <<"check", "config">>

----------------------------------------------------------------------------
(* C16 *)

\* C16: backupdb called with an empty dbname (config.yaml being in order)
\* ends with the ValueError propagated to the caller, no backup removed and
\* no external command run.
C16_EmptyNameValueError ==
    (dbname = "" /\ benv.config = "ok" /\ bpc \in {"propagated", "returned"})
    => /\ bpc = "propagated"
       /\ raised = "ValueError"
       /\ backups = benv.backups
       /\ commands = <<>>

----------------------------------------------------------------------------
(* C17 *)

\* C17: a run of config that raises has modified none of
\* pyrightconfig.json, .vscode/settings.json and odoo.conf.
C17_AllOrNothing ==
    pc = "failed" => Files = before

====
